---- MODULE Spec2Model ----
(***************************************************************************)
(* Model of packages/support/index.js: getData (cache-aside resolution of  *)
(* a file through a local directory and a publisher) and renderDocument    *)
(* (frontmatter parsing and Nunjucks rendering of body and title).         *)
(***************************************************************************)
EXTENDS Integers, Sequences, FiniteSets, TLC

VARIABLES
    files,      \* local filesystem: path -> content, for the files that exist
    dirs,       \* local filesystem: the directories that exist
    source,     \* what publisher.readFile resolves with, per basepath
    calls,      \* one getData invocation per caller: position and locals
    last,       \* per basepath, how the latest completed getData call ended
    written,    \* per basepath, whether some fsp.writeFile has been fulfilled
    started,    \* number of getData calls started so far
    rpc,        \* position inside renderDocument
    args,       \* the arguments renderDocument was called with
    context,    \* the caller's context object, as it is now
    document,   \* const document = frontmatter(string)
    result,     \* the object renderDocument returns, as built so far
    rerror,     \* the error renderDocument throws, if any
    renders     \* the calls made to utils.render: <<string, context>> each

cacheVars == <<files, dirs, source, calls, last, written, started>>
renderVars == <<rpc, args, context, document, result, rerror, renders>>
vars == <<files, dirs, source, calls, last, written, started,
          rpc, args, context, document, result, rerror, renders>>

----------------------------------------------------------------------------
(* Values                                                                  *)

\* The JavaScript value undefined, kept distinct from every string.
Undefined == <<"undefined">>

\* No error.
None == [name |-> "none", message |-> ""]

\* Bound on the number of getData calls in one behaviour.
MaxCalls == 3

\* The concurrent callers of getData.
Procs == {"A", "B"}

\* File contents and publisher payloads: strings as sequences of characters.
Payloads == {<< >>, <<"h", "i">>}

\* basepath arguments, as sequences of path segments.
Basepaths == {<<"a", "b.txt">>, <<"c.txt">>}

\* The tmpdir argument, an existing directory.
tmpdir == <<"tmp">>

\* Messages of the errors publisher.readFile rejects with.
SourceMessages == {"Not Found", "Bad credentials"}

\* Message of the errors the local filesystem rejects with on its own.
FsMessages == {"ENOSPC"}

----------------------------------------------------------------------------
(* Helpers of getData                                                      *)

\* path.join(tmpdir, basepath)
PathJoin(dir, basepath) == dir \o basepath

\* path.dirname(filePath)
Dirname(p) == SubSeq(p, 1, Len(p) - 1)

\* JavaScript truthiness of a string-or-undefined value.
Truthy(v) == v # Undefined /\ v # << >>

\* new Error(error.message)
WrapErrorDropMessage(e) == [name |-> "Error", message |-> ""]
WrapError(e) == [name |-> "Error", message |-> e.message]

\* if (fileData): answer from the filesystem
CacheHitAlwaysMiss(fileData) == FALSE
CacheHit(fileData) == Truthy(fileData)

\* if (pubData): persist what the publisher returned
ShouldPersistAlways(pubData) == TRUE
ShouldPersist(pubData) == Truthy(pubData)

\* What fsp.readFile(filePath, {encoding: 'utf-8'}).catch(...) yields: the
\* content, or undefined when the read rejects (the catch returns nothing).
ReadLocalFile(fs, p) == IF p \in DOMAIN fs THEN fs[p] ELSE Undefined

\* The directories fsp.mkdir(dir, {recursive}) leaves, or an error.
\* recursive: every missing ancestor is created, an existing dir is no error.
\* non-recursive: EEXIST if dir exists, ENOENT if its parent is missing.
MkdirResult(ds, dir, recursive) ==
    IF recursive
    THEN [error |-> None,
          dirs |-> ds \cup {SubSeq(dir, 1, n) : n \in 1..Len(dir)}]
    ELSE IF dir \in ds
         THEN [error |-> [name |-> "Error", message |-> "EEXIST"], dirs |-> ds]
         ELSE IF Dirname(dir) \notin ds
              THEN [error |-> [name |-> "Error", message |-> "ENOENT"], dirs |-> ds]
              ELSE [error |-> None, dirs |-> ds \cup {dir}]

\* {recursive: true}
MkdirOptionsNonRecursive == FALSE
MkdirOptions == TRUE

\* Content of a file after `bytes` are written at offset 0 over `cur`.
Overlay(cur, bytes) ==
    bytes \o SubSeq(cur, Len(bytes) + 1, Len(cur))

\* The filesystem with file p holding content c.
WithFile(fs, p, c) ==
    [x \in DOMAIN fs \cup {p} |-> IF x = p THEN c ELSE fs[x]]

\* The data fsp.writeFile hands to the filesystem, given pubData.
WriteBytes(pubData) == pubData

\* What `await fsp.writeFile(...)` evaluates to: the promise is fulfilled
\* with no value.
WriteFileValue(pubData) == Undefined

IdleCall ==
    [pc |-> "idle", basepath |-> << >>, missing |-> FALSE,
     fileData |-> Undefined,
     pubData |-> Undefined, data |-> Undefined, error |-> None,
     sourceError |-> None, stage |-> "none",
     nFetch |-> 0, nMkdir |-> 0, nWrite |-> 0,
     prev |-> [outcome |-> "none", data |-> Undefined]]

FilePath(p) == PathJoin(tmpdir, calls[p].basepath)

----------------------------------------------------------------------------
(* getData, one action per await                                           *)

\* A caller invokes getData(basepath, tmpdir, publisher).
Start(p, basepath) ==
    /\ calls[p].pc = "idle"
    /\ started < MaxCalls
    /\ started' = started + 1
    /\ calls' = [calls EXCEPT ![p] =
                    [IdleCall EXCEPT !.pc = "readLocal",
                                     !.basepath = basepath,
                                     !.prev = last[basepath]]]
    /\ UNCHANGED <<files, dirs, source, last, written>>

\* await fsp.readFile(filePath).catch(...), then the branch on fileData.
\* `missing` notes whether the file was absent when it was read.
ReadLocalStep(p, fileData, missing) ==
    IF CacheHit(fileData)
    THEN /\ calls' = [calls EXCEPT ![p].pc = "done",
                                   ![p].missing = missing,
                                   ![p].fileData = fileData,
                                   ![p].data = fileData]
         /\ last' = [last EXCEPT ![calls[p].basepath] =
                        [outcome |-> "ok", data |-> fileData]]
    ELSE /\ calls' = [calls EXCEPT ![p].pc = "fetch",
                                   ![p].missing = missing,
                                   ![p].fileData = fileData]
         /\ UNCHANGED last

ReadLocal(p) ==
    /\ calls[p].pc = "readLocal"
    /\ ReadLocalStep(p, ReadLocalFile(files, FilePath(p)),
                     FilePath(p) \notin DOMAIN files)
    /\ UNCHANGED <<files, dirs, source, written, started>>

\* The read of an existing file rejects (permissions, I/O): the catch
\* swallows the error and fileData is undefined.
ReadLocalError(p) ==
    /\ calls[p].pc = "readLocal"
    /\ FilePath(p) \in DOMAIN files
    /\ ReadLocalStep(p, Undefined, FALSE)
    /\ UNCHANGED <<files, dirs, source, written, started>>

\* await publisher.readFile(basepath) is fulfilled.
Fetch(p) ==
    /\ calls[p].pc = "fetch"
    /\ LET pubData == source[calls[p].basepath] IN
       IF ShouldPersist(pubData)
       THEN /\ calls' = [calls EXCEPT ![p].pc = "mkdir",
                                      ![p].pubData = pubData,
                                      ![p].nFetch = @ + 1]
            /\ UNCHANGED last
       ELSE /\ calls' = [calls EXCEPT ![p].pc = "done",
                                      ![p].pubData = pubData,
                                      ![p].nFetch = @ + 1]
            /\ last' = [last EXCEPT ![calls[p].basepath] =
                           [outcome |-> "ok", data |-> calls[p].data]]
    /\ UNCHANGED <<files, dirs, source, written, started>>

\* await publisher.readFile(basepath) rejects with an error carrying msg.
FetchFail(p, msg) ==
    /\ calls[p].pc = "fetch"
    /\ LET e == [name |-> "PublisherError", message |-> msg] IN
       calls' = [calls EXCEPT ![p].pc = "failed",
                              ![p].stage = "fetch",
                              ![p].nFetch = @ + 1,
                              ![p].sourceError = e,
                              ![p].error = WrapError(e)]
    /\ last' = [last EXCEPT ![calls[p].basepath] =
                   [outcome |-> "fetchError", data |-> Undefined]]
    /\ UNCHANGED <<files, dirs, source, written, started>>

\* await fsp.mkdir(path.dirname(filePath), {recursive: true})
Mkdir(p) ==
    /\ calls[p].pc = "mkdir"
    /\ LET r == MkdirResult(dirs, Dirname(FilePath(p)), MkdirOptions) IN
       IF r.error = None
       THEN /\ dirs' = r.dirs
            /\ calls' = [calls EXCEPT ![p].pc = "writeOpen",
                                      ![p].nMkdir = @ + 1]
            /\ UNCHANGED last
       ELSE /\ dirs' = dirs
            /\ calls' = [calls EXCEPT ![p].pc = "failed",
                                      ![p].stage = "persist",
                                      ![p].nMkdir = @ + 1,
                                      ![p].error = WrapError(r.error)]
            /\ last' = [last EXCEPT ![calls[p].basepath] =
                           [outcome |-> "persistError", data |-> Undefined]]
    /\ UNCHANGED <<files, source, written, started>>

\* fsp.mkdir rejects (permissions, disk): nothing is created.
MkdirFail(p, msg) ==
    /\ calls[p].pc = "mkdir"
    /\ calls' = [calls EXCEPT ![p].pc = "failed",
                              ![p].stage = "persist",
                              ![p].nMkdir = @ + 1,
                              ![p].error =
                                  WrapError([name |-> "SystemError", message |-> msg])]
    /\ last' = [last EXCEPT ![calls[p].basepath] =
                   [outcome |-> "persistError", data |-> Undefined]]
    /\ UNCHANGED <<files, dirs, source, written, started>>

\* fsp.writeFile, first half: the file is opened with flag 'w', which
\* creates it or truncates it to length 0.  Opening fails with ENOENT when
\* the parent directory does not exist.
WriteOpen(p) ==
    /\ calls[p].pc = "writeOpen"
    /\ IF Dirname(FilePath(p)) \in dirs
       THEN /\ files' = WithFile(files, FilePath(p), << >>)
            /\ calls' = [calls EXCEPT ![p].pc = "writeData",
                                      ![p].nWrite = @ + 1]
            /\ UNCHANGED last
       ELSE /\ files' = files
            /\ calls' = [calls EXCEPT ![p].pc = "failed",
                                      ![p].stage = "persist",
                                      ![p].nWrite = @ + 1,
                                      ![p].error =
                                          WrapError([name |-> "SystemError",
                                                     message |-> "ENOENT"])]
            /\ last' = [last EXCEPT ![calls[p].basepath] =
                           [outcome |-> "persistError", data |-> Undefined]]
    /\ UNCHANGED <<dirs, source, written, started>>

\* The open rejects (permissions, disk): the filesystem is left as it was.
WriteOpenFail(p, msg) ==
    /\ calls[p].pc = "writeOpen"
    /\ calls' = [calls EXCEPT ![p].pc = "failed",
                              ![p].stage = "persist",
                              ![p].nWrite = @ + 1,
                              ![p].error =
                                  WrapError([name |-> "SystemError", message |-> msg])]
    /\ last' = [last EXCEPT ![calls[p].basepath] =
                   [outcome |-> "persistError", data |-> Undefined]]
    /\ UNCHANGED <<files, dirs, source, written, started>>

\* fsp.writeFile, second half: the data is written and the promise is
\* fulfilled; `data = await fsp.writeFile(...)`, then `return data`.
WriteData(p) ==
    /\ calls[p].pc = "writeData"
    /\ files' = WithFile(files, FilePath(p),
                         Overlay(files[FilePath(p)], WriteBytes(calls[p].pubData)))
    /\ calls' = [calls EXCEPT ![p].pc = "done",
                              ![p].data = WriteFileValue(calls[p].pubData)]
    /\ written' = [written EXCEPT ![calls[p].basepath] = TRUE]
    /\ last' = [last EXCEPT ![calls[p].basepath] =
                   [outcome |-> "ok",
                    data |-> WriteFileValue(calls[p].pubData)]]
    /\ UNCHANGED <<dirs, source, started>>

\* The write rejects after k bytes reached the file (disk full, I/O error,
\* failing close): getData rethrows and removes nothing.
WriteDataFail(p, msg) ==
    /\ calls[p].pc = "writeData"
    /\ \E k \in 0..Len(WriteBytes(calls[p].pubData)) :
          files' = WithFile(files, FilePath(p),
                            Overlay(files[FilePath(p)],
                                    SubSeq(WriteBytes(calls[p].pubData), 1, k)))
    /\ calls' = [calls EXCEPT ![p].pc = "failed",
                              ![p].stage = "persist",
                              ![p].error =
                                  WrapError([name |-> "SystemError", message |-> msg])]
    /\ last' = [last EXCEPT ![calls[p].basepath] =
                   [outcome |-> "persistError", data |-> Undefined]]
    /\ UNCHANGED <<dirs, source, written, started>>

\* The caller has received the result (or the rejection) and may call again.
Return(p) ==
    /\ calls[p].pc \in {"done", "failed"}
    /\ calls' = [calls EXCEPT ![p] = IdleCall]
    /\ UNCHANGED <<files, dirs, source, last, written, started>>

----------------------------------------------------------------------------
(* renderDocument                                                          *)

\* A file is a sequence of lines: the frontmatter marker `---`, a YAML
\* `key: value` line, or a line of text.  Values and text are template
\* strings, kept as sequences of tokens.
Marker == [kind |-> "marker", key |-> "", value |-> <<"---">>]
KV(k, v) == [kind |-> "kv", key |-> k, value |-> v]
TextLine(v) == [kind |-> "text", key |-> "", value |-> v]

\* The keys a frontmatter block may set.
Keys == {"title", "author"}

\* An attributes object without keys: every property reads as undefined.
\* A context whose `page` was never set reads the same way in a template.
NoPage == [k \in Keys |-> Undefined]

TitleVar == "{{ page.title }}"
AuthorVar == "{{ page.author }}"

TitleLines == {<< >>, <<KV("title", <<"Hi">>)>>,
               <<KV("title", <<"By ", AuthorVar>>)>>}
AuthorLines == {<< >>, <<KV("author", <<"Ann">>)>>}
BodyLines == {<<TextLine(<<"Body">>)>>,
              <<TextLine(<<"Body ", TitleVar>>), TextLine(<<AuthorVar>>)>>}

\* The files renderDocument is given: with a frontmatter block (possibly
\* empty), without one, and with a block that is never closed.
Files ==
    {<<Marker>> \o t \o a \o <<Marker>> \o b :
        t \in TitleLines, a \in AuthorLines, b \in BodyLines}
    \cup BodyLines
    \cup {<<Marker, KV("title", <<"Hi">>), TextLine(<<"Body">>)>>}

\* The context objects callers pass in.
Contexts == {[page |-> NoPage],
             [page |-> [title |-> <<"Old">>, author |-> <<"Bob">>]]}

\* Index of the line closing the frontmatter block, 0 if there is none.
ClosingIndex(lines) ==
    LET closers == {j \in 2..Len(lines) : lines[j].kind = "marker"} IN
    IF Len(lines) = 0 \/ lines[1].kind # "marker" \/ closers = {}
    THEN 0
    ELSE CHOOSE j \in closers : \A i \in closers : j <= i

\* The text of lines from..Len(lines), concatenated.
RECURSIVE Concat(_, _)
Concat(lines, from) ==
    IF from > Len(lines) THEN << >>
    ELSE lines[from].value \o Concat(lines, from + 1)

\* frontmatter(string): {attributes, body}.  Without a closed block the
\* attributes are empty and the body is the whole text.
Frontmatter(lines) ==
    LET c == ClosingIndex(lines) IN
    IF c = 0
    THEN [attributes |-> NoPage, body |-> Concat(lines, 1)]
    ELSE [attributes |->
             [k \in Keys |->
                LET set == {j \in 2..(c - 1) :
                               lines[j].kind = "kv" /\ lines[j].key = k} IN
                IF set = {} THEN Undefined
                ELSE lines[CHOOSE j \in set : \A i \in set : i <= j].value],
          body |-> Concat(lines, c + 1)]

\* What a variable's value prints as: undefined prints as nothing.
Show(v) == IF v = Undefined THEN << >> ELSE v

\* env.renderString on a string: every `{{ page.key }}` is replaced by the
\* value found in the context, other text is kept.
RECURSIVE RenderString(_, _)
RenderString(tokens, ctx) ==
    IF tokens = << >> THEN << >>
    ELSE (IF Head(tokens) = TitleVar THEN Show(ctx.page.title)
          ELSE IF Head(tokens) = AuthorVar THEN Show(ctx.page.author)
          ELSE <<Head(tokens)>>)
         \o RenderString(Tail(tokens), ctx)

\* utils.render(string, context): Nunjucks refuses a source that is not a
\* string ("src must be a string or an object describing the source").
Render(string, ctx) ==
    IF string = Undefined
    THEN [error |-> [name |-> "Error", message |-> "src must be a string"],
          value |-> Undefined]
    ELSE [error |-> None, value |-> RenderString(string, ctx)]

\* context.page = document.attributes
SetPageKeepCallers(ctx, attributes) == ctx
SetPage(ctx, attributes) == [ctx EXCEPT !.page = attributes]

NoDocument == [attributes |-> NoPage, body |-> << >>]
NoResult == [body |-> Undefined, page |-> NoPage, title |-> Undefined]

\* renderDocument(file, context) is called.
RenderDocumentCall(f, ctx) ==
    /\ rpc = "idle"
    /\ rpc' = "read"
    /\ args' = [file |-> f, context |-> ctx]
    /\ context' = ctx
    /\ document' = NoDocument
    /\ result' = NoResult
    /\ rerror' = None
    /\ renders' = << >>

\* fs.readFileSync, Buffer.toString and frontmatter(string)
ParseFile ==
    /\ rpc = "read"
    /\ rpc' = "parsed"
    /\ document' = Frontmatter(args.file)
    /\ UNCHANGED <<args, context, result, rerror, renders>>

\* context.page = document.attributes
AssignPage ==
    /\ rpc = "parsed"
    /\ rpc' = "pageSet"
    /\ context' = SetPage(context, document.attributes)
    /\ UNCHANGED <<args, document, result, rerror, renders>>

\* body: utils.render(document.body, context)
RenderBody ==
    /\ rpc = "pageSet"
    /\ renders' = Append(renders, [string |-> document.body, context |-> context])
    /\ LET r == Render(document.body, context) IN
       IF r.error = None
       THEN /\ rpc' = "bodyDone"
            /\ result' = [result EXCEPT !.body = r.value]
            /\ rerror' = rerror
       ELSE /\ rpc' = "error"
            /\ result' = result
            /\ rerror' = r.error
    /\ UNCHANGED <<args, context, document>>

\* page: document.attributes, title: utils.render(document.attributes.title,
\* context), and the return of the object.
RenderTitle ==
    /\ rpc = "bodyDone"
    /\ renders' = Append(renders, [string |-> document.attributes.title,
                                   context |-> context])
    /\ LET r == Render(document.attributes.title, context) IN
       IF r.error = None
       THEN /\ rpc' = "done"
            /\ result' = [result EXCEPT !.page = document.attributes,
                                        !.title = r.value]
            /\ rerror' = rerror
       ELSE /\ rpc' = "error"
            /\ result' = result
            /\ rerror' = r.error
    /\ UNCHANGED <<args, context, document>>

\* The caller has the document (or the exception); the context object it
\* passed in stays as renderDocument left it.
RenderDocumentEnd ==
    /\ rpc \in {"done", "error"}
    /\ rpc' = "idle"
    /\ UNCHANGED <<args, context, document, result, rerror, renders>>

----------------------------------------------------------------------------
InitCache ==
    /\ files = << >>
    /\ dirs = {tmpdir}
    /\ source \in [Basepaths -> Payloads]
    /\ calls = [p \in Procs |-> IdleCall]
    /\ last = [b \in Basepaths |-> [outcome |-> "none", data |-> Undefined]]
    /\ written = [b \in Basepaths |-> FALSE]
    /\ started = 0

InitRender ==
    /\ rpc = "idle"
    /\ args = [file |-> << >>, context |-> [page |-> NoPage]]
    /\ context = [page |-> NoPage]
    /\ document = NoDocument
    /\ result = NoResult
    /\ rerror = None
    /\ renders = << >>

Init == InitCache /\ InitRender

\* getData with every failure the publisher and the filesystem can produce.
Next ==
    \/ \E p \in Procs, b \in Basepaths : Start(p, b) /\ UNCHANGED renderVars
    \/ \E p \in Procs : ReadLocal(p) /\ UNCHANGED renderVars
    \/ \E p \in Procs : ReadLocalError(p) /\ UNCHANGED renderVars
    \/ \E p \in Procs : Fetch(p) /\ UNCHANGED renderVars
    \/ \E p \in Procs, m \in SourceMessages : FetchFail(p, m) /\ UNCHANGED renderVars
    \/ \E p \in Procs : Mkdir(p) /\ UNCHANGED renderVars
    \/ \E p \in Procs, m \in FsMessages : MkdirFail(p, m) /\ UNCHANGED renderVars
    \/ \E p \in Procs : WriteOpen(p) /\ UNCHANGED renderVars
    \/ \E p \in Procs, m \in FsMessages : WriteOpenFail(p, m) /\ UNCHANGED renderVars
    \/ \E p \in Procs : WriteData(p) /\ UNCHANGED renderVars
    \/ \E p \in Procs, m \in FsMessages : WriteDataFail(p, m) /\ UNCHANGED renderVars
    \/ \E p \in Procs : Return(p) /\ UNCHANGED renderVars

Spec == Init /\ [][Next]_vars

\* getData when the publisher and the filesystem reject nothing on their own.
NextNoFail ==
    \/ \E p \in Procs, b \in Basepaths : Start(p, b) /\ UNCHANGED renderVars
    \/ \E p \in Procs : ReadLocal(p) /\ UNCHANGED renderVars
    \/ \E p \in Procs : Fetch(p) /\ UNCHANGED renderVars
    \/ \E p \in Procs : Mkdir(p) /\ UNCHANGED renderVars
    \/ \E p \in Procs : WriteOpen(p) /\ UNCHANGED renderVars
    \/ \E p \in Procs : WriteData(p) /\ UNCHANGED renderVars
    \/ \E p \in Procs : Return(p) /\ UNCHANGED renderVars

SpecNoFail == Init /\ [][NextNoFail]_vars

\* renderDocument on every file and context of the bounded sets.
NextRender ==
    \/ \E f \in Files, c \in Contexts : RenderDocumentCall(f, c) /\ UNCHANGED cacheVars
    \/ ParseFile /\ UNCHANGED cacheVars
    \/ AssignPage /\ UNCHANGED cacheVars
    \/ RenderBody /\ UNCHANGED cacheVars
    \/ RenderTitle /\ UNCHANGED cacheVars
    \/ RenderDocumentEnd /\ UNCHANGED cacheVars

SpecRender == Init /\ [][NextRender]_vars

----------------------------------------------------------------------------
(* Properties of getData                                                   *)

\* C1: a getData call that found no file at tmpdir/basepath and got
\* non-empty data from the publisher returns exactly that data, and the file
\* then holds it.
C1_FetchedBytesReturned ==
    \A p \in Procs :
        (/\ calls[p].pc = "done"
         /\ calls[p].missing
         /\ calls[p].nFetch = 1
         /\ Truthy(calls[p].pubData))
        => /\ calls[p].data = calls[p].pubData
           /\ ReadLocalFile(files, FilePath(p)) = calls[p].pubData

\* C2: once a getData call for a basepath has completed without error, the
\* next call for it returns what that call returned and never calls
\* publisher.readFile (stated for basepaths the publisher has data for).
C2_SecondCallIdentical ==
    \A p \in Procs :
        (/\ calls[p].pc = "done"
         /\ calls[p].prev.outcome = "ok"
         /\ Truthy(source[calls[p].basepath]))
        => /\ calls[p].data = calls[p].prev.data
           /\ calls[p].nFetch = 0

\* C3: when the local read misses and publisher.readFile rejects, getData
\* rejects with an error carrying the publisher's message, has created no
\* directory and written no file, and the step leaves files and directories
\* as they were: a file that did not exist does not exist afterwards.
C3_FetchFailureLeavesCache ==
    [][\A p \in Procs :
          (calls[p].pc = "fetch" /\ calls'[p].pc = "failed")
          => /\ ~Truthy(calls[p].fileData)
             /\ calls'[p].sourceError # None
             /\ calls'[p].error.message = calls'[p].sourceError.message
             /\ calls'[p].nMkdir = 0
             /\ calls'[p].nWrite = 0
             /\ files' = files
             /\ dirs' = dirs
             /\ (FilePath(p) \notin DOMAIN files
                    => FilePath(p) \notin DOMAIN files')]_vars

\* C3 witness: a call that found no file has been rejected by the publisher
\* and the file still does not exist.
C3_Witness ==
    \E p \in Procs :
        /\ calls[p].pc = "failed"
        /\ calls[p].stage = "fetch"
        /\ calls[p].missing
        /\ calls[p].error.message = "Not Found"
        /\ FilePath(p) \notin DOMAIN files

\* C4: when the publisher's data was fetched but mkdir or writeFile rejects,
\* getData rejects and hands no data to the caller, no data is left at
\* tmpdir/basepath (no other call having written it), and the next call for
\* the basepath calls publisher.readFile again.
C4_PersistFailureLeavesNoEntry ==
    \A p \in Procs :
        /\ (calls[p].pc = "failed" /\ calls[p].stage = "persist")
           => /\ calls[p].error # None
              /\ calls[p].data = Undefined
              /\ (~written[calls[p].basepath]
                     => ~Truthy(ReadLocalFile(files, FilePath(p))))
        /\ (/\ calls[p].pc = "done"
            /\ calls[p].prev.outcome = "persistError"
            /\ ~written[calls[p].basepath])
           => calls[p].nFetch = 1

\* C5: a step of a getData call creates a directory or writes a file only
\* if that call's local read missed and its publisher.readFile succeeded
\* with data; a call that answers from the filesystem leaves files and
\* directories unchanged and has not called the publisher.
C5_WritesOnlyAfterMissAndFetch ==
    [][\A p \in Procs :
          (calls'[p] # calls[p])
          => /\ (\/ files' # files
                 \/ dirs' # dirs
                 \/ calls'[p].nMkdir > calls[p].nMkdir
                 \/ calls'[p].nWrite > calls[p].nWrite)
                => /\ ~Truthy(calls[p].fileData)
                   /\ calls[p].nFetch = 1
                   /\ Truthy(calls[p].pubData)
                   /\ calls[p].error = None
             /\ (calls'[p].pc = "done" /\ Truthy(calls'[p].fileData))
                => /\ files' = files
                   /\ dirs' = dirs
                   /\ calls'[p].nFetch = 0
                   /\ calls'[p].nMkdir = 0
                   /\ calls'[p].nWrite = 0]_vars

\* C5 witness: a call has answered from a file another call had written.
C5_Witness ==
    \E p \in Procs :
        /\ calls[p].pc = "done"
        /\ Truthy(calls[p].fileData)
        /\ calls[p].data = calls[p].fileData
        /\ written[calls[p].basepath]

\* C6: whatever getData calls ran and however they interleaved, a file at
\* tmpdir/basepath that holds data holds the publisher's data for that
\* basepath, and every call answered from the filesystem returns the
\* publisher's data.
C6_CacheEqualsSource ==
    /\ \A b \in Basepaths :
          LET path == PathJoin(tmpdir, b) IN
          (path \in DOMAIN files /\ files[path] # << >>)
          => files[path] = source[b]
    /\ \A p \in Procs :
          (calls[p].pc = "done" /\ Truthy(calls[p].fileData))
          => calls[p].data = source[calls[p].basepath]

\* C9: with a publisher and a filesystem that reject nothing on their own,
\* no getData call fails however the calls interleave, and once a write of
\* a basepath has completed and no write of it is in progress, the file
\* holds exactly the publisher's data (the last write wins).
C9_ConcurrentMissesConverge ==
    /\ \A p \in Procs : calls[p].pc # "failed" /\ calls[p].error = None
    /\ \A b \in Basepaths :
          (/\ written[b]
           /\ \A p \in Procs :
                 ~(calls[p].basepath = b /\ calls[p].pc = "writeData"))
          => /\ PathJoin(tmpdir, b) \in DOMAIN files
             /\ files[PathJoin(tmpdir, b)] = source[b]

\* C9 witness: two calls for the same basepath have both missed the local
\* file, both called the publisher and both written.
C9_Witness ==
    \E p, q \in Procs :
        /\ p # q
        /\ calls[p].basepath = calls[q].basepath
        /\ calls[p].pc = "done" /\ calls[q].pc = "done"
        /\ calls[p].nFetch = 1 /\ calls[q].nFetch = 1
        /\ calls[p].nWrite = 1 /\ calls[q].nWrite = 1
        /\ calls[p].missing /\ calls[q].missing

\* C10: a call whose publisher returned an empty payload creates nothing,
\* writes nothing and completes without error and without data; every
\* mkdir and writeFile is for a non-empty payload, so is every completed
\* write; and a call that read an empty file goes on to the publisher.
C10_EmptyPayloadNotPersisted ==
    /\ \A p \in Procs :
          /\ (\/ calls[p].pc \in {"mkdir", "writeOpen", "writeData"}
              \/ calls[p].nMkdir > 0
              \/ calls[p].nWrite > 0)
             => Truthy(calls[p].pubData)
          /\ (calls[p].nFetch = 1 /\ calls[p].pubData = << >>)
             => /\ calls[p].pc = "done"
                /\ calls[p].nMkdir = 0
                /\ calls[p].nWrite = 0
                /\ calls[p].data = Undefined
                /\ calls[p].error = None
          /\ (calls[p].pc \notin {"idle", "readLocal"} /\ calls[p].fileData = << >>)
             => (calls[p].pc = "fetch" \/ calls[p].nFetch = 1)
    /\ \A b \in Basepaths : written[b] => Truthy(source[b])

\* C10 witness: one call got an empty payload and is done, having written
\* nothing, while another call read an empty file and went to the publisher.
C10_Witness ==
    \E p, q \in Procs :
        /\ calls[p].pc = "done"
        /\ calls[p].nFetch = 1
        /\ calls[p].pubData = << >>
        /\ FilePath(p) \notin DOMAIN files
        /\ calls[q].fileData = << >>
        /\ ~calls[q].missing
        /\ calls[q].nFetch = 1

----------------------------------------------------------------------------
(* Properties of renderDocument                                            *)

\* C7: for a document whose frontmatter has no title, renderDocument
\* returns without error, with title undefined, and does not render a title
\* template.
C7_MissingTitleUndefined ==
    (rpc \in {"done", "error"} /\ Frontmatter(args.file).attributes.title = Undefined)
    => /\ rpc = "done"
       /\ rerror = None
       /\ result.title = Undefined
       /\ Len(renders) = 1

\* C8: every utils.render call of renderDocument receives a context whose
\* page is the parsed frontmatter, body and title receive the same context,
\* and when renderDocument returns, the caller's context.page is the
\* frontmatter that the returned document carries as page.
C8_PageSetBeforeRendering ==
    LET parsed == Frontmatter(args.file) IN
    /\ \A i \in 1..Len(renders) : renders[i].context.page = parsed.attributes
    /\ Len(renders) >= 1 => renders[1].string = parsed.body
    /\ Len(renders) = 2
       => /\ renders[2].context = renders[1].context
          /\ renders[2].string = parsed.attributes.title
    /\ rpc = "done"
       => /\ Len(renders) = 2
          /\ context.page = parsed.attributes
          /\ result.page = context.page
          /\ result.body = RenderString(parsed.body, context)
          /\ result.title = RenderString(parsed.attributes.title, context)

\* C8 witness: renderDocument has returned for a caller whose context held
\* another page, and a title template that reads page.author was rendered.
C8_Witness ==
    /\ rpc = "done"
    /\ args.context.page.title = <<"Old">>
    /\ context.page.title = <<"By ", AuthorVar>>
    /\ result.title = <<"By ", "Ann">>
    /\ result.page = context.page

====
